---- MODULE Spec2Model ----
(***************************************************************************)
(* The tower-defence game of src/src/types.ts (the React component App and *)
(* its constants) as a state machine.                                      *)
(*                                                                         *)
(* Numbers.  The program computes in IEEE doubles.  The model keeps        *)
(* positions on the integer grid of the 800 x 600 arena, the blast radius  *)
(* in halves of a unit (the growth step 1.5 is 3 halves) and the health of *)
(* a plane in hundredths (the damages 0.03 and 0.05 are 3 and 5).  A step  *)
(* of cos(angle)*speed, sin(angle)*speed is rounded to the grid; an angle  *)
(* is kept as the pair (dx, dy) handed to Math.atan2.                      *)
(***************************************************************************)
EXTENDS Integers, Sequences, FiniteSets, TLC

\* ---------------------------------------------------------------- constants
GAME_WIDTH == 800
GAME_HEIGHT == 600

TOWER_POSITIONS ==
  << [id |-> 0, x |-> 40,  y |-> 560, maxAmmo |-> 300],
     [id |-> 1, x |-> 220, y |-> 560, maxAmmo |-> 300],
     [id |-> 2, x |-> 400, y |-> 560, maxAmmo |-> 300],
     [id |-> 3, x |-> 580, y |-> 560, maxAmmo |-> 300],
     [id |-> 4, x |-> 760, y |-> 560, maxAmmo |-> 300] >>

CITY_POSITIONS ==
  << [id |-> 0, x |-> 110, y |-> 570],
     [id |-> 1, x |-> 160, y |-> 570],
     [id |-> 2, x |-> 300, y |-> 570],
     [id |-> 3, x |-> 500, y |-> 570],
     [id |-> 4, x |-> 650, y |-> 570],
     [id |-> 5, x |-> 700, y |-> 570] >>

\* EXPLOSION_MAX_RADIUS = 70 and EXPLOSION_SPEED = 1.5, in halves of a unit
EXPLOSION_MAX_RADIUS == 140
EXPLOSION_SPEED == 3
MISSILE_SPEED == 8
SCORE_PER_ROCKET == 20
\* the bonus for a destroyed plane
PLANE_BONUS == 10
\* the score a level asks for is level * LEVEL_TARGET_STEP
LEVEL_TARGET_STEP == 500
\* the last level
LAST_LEVEL == 10
CITY_HEALTH == 2
TOWER_HEALTH == 5
\* the box of a ground impact: |dx| < 30 and |dy| < 20
IMPACT_DX == 30
IMPACT_DY == 20
\* the hit boxes of a beam: rockets within 8, planes within 12
BEAM_ROCKET_DIST == 8
BEAM_PLANE_DIST == 12
\* damage to a plane, in hundredths: 0.03 by a beam, 0.05 by a blast
BEAM_PLANE_DAMAGE == 3
BLAST_PLANE_DAMAGE == 5
\* the formation changes when the timer exceeds 400
FORMATION_PERIOD == 400

\* ---------------------------------------------------------------- arithmetic
Abs(a) == IF a < 0 THEN -a ELSE a
Min(a, b) == IF a < b THEN a ELSE b
Max(a, b) == IF a > b THEN a ELSE b
Sq(a) == a * a

\* a / b rounded to the nearest integer, halves away from zero (b > 0)
RoundDiv(a, b) ==
  IF a >= 0 THEN (2 * a + b) \div (2 * b) ELSE -((2 * (-a) + b) \div (2 * b))

\* a / b rounded away from zero (b > 0): a step that is never lost to rounding
CeilDiv(a, b) ==
  IF a >= 0 THEN (a + b - 1) \div b ELSE -(((-a) + b - 1) \div b)

RECURSIVE SqrtBetween(_, _, _)
\* the largest r in lo..hi with r*r <= n
SqrtBetween(n, lo, hi) ==
  IF lo >= hi THEN lo
  ELSE LET mid == (lo + hi + 1) \div 2
       IN  IF mid * mid <= n THEN SqrtBetween(n, mid, hi)
           ELSE SqrtBetween(n, lo, mid - 1)

\* Math.sqrt, rounded down
ISqrt(n) == SqrtBetween(n, 0, 46340)

\* Math.atan2(dy, dx) as the direction it denotes; atan2(0, 0) is 0, the
\* direction of the positive x axis
Atan2(dy, dx) ==
  IF dx = 0 /\ dy = 0 THEN [dx |-> 1, dy |-> 0] ELSE [dx |-> dx, dy |-> dy]

\* Math.cos(angle) * speed and Math.sin(angle) * speed, rounded to the grid
CosTimes(angle, speed) ==
  RoundDiv(speed * angle.dx * 16, ISqrt((Sq(angle.dx) + Sq(angle.dy)) * 256))

SinTimes(angle, speed) ==
  RoundDiv(speed * angle.dy * 16, ISqrt((Sq(angle.dx) + Sq(angle.dy)) * 256))

\* Math.sin(x * 0.02) * 20 rounded to the grid (Bhaskara's approximation of
\* the sine, half a period being 157 units of x)
Sin20(x) ==
  LET u == x % 314
      v == IF u < 157 THEN u ELSE u - 157
      s == IF u < 157 THEN 1 ELSE -1
      p == v * (157 - v)
  IN  s * RoundDiv(20 * 16 * p, 5 * 157 * 157 - 4 * p)

Dist2(a, b) == Sq(a.x - b.x) + Sq(a.y - b.y)

\* a variant without the test for l2 = 0: t is 0 / 0, the distance is NaN
\* and no comparison with it holds
DistToSegmentLessUnguarded(p, v, w, d) ==
  LET l2 == Dist2(v, w)
      dot == (p.x - v.x) * (w.x - v.x) + (p.y - v.y) * (w.y - v.y)
  IN  IF l2 = 0 THEN FALSE
      ELSE IF dot <= 0 THEN Dist2(p, v) < Sq(d)
      ELSE IF dot >= l2 THEN Dist2(p, w) < Sq(d)
      ELSE Sq((p.x - v.x) * (w.y - v.y) - (p.y - v.y) * (w.x - v.x))
             < Sq(d) * l2

\* distToSegment(p, v, w) < d, decided exactly on the squares.  Between the
\* end points the distance is |cross| / sqrt(l2); the squares are compared
\* only when |cross| is within one d of d * sqrt(l2), which keeps the
\* products in range.
DistToSegmentLess(p, v, w, d) ==
  LET l2 == Dist2(v, w)
      dot == (p.x - v.x) * (w.x - v.x) + (p.y - v.y) * (w.y - v.y)
      cross == Abs((p.x - v.x) * (w.y - v.y) - (p.y - v.y) * (w.x - v.x))
      s == ISqrt(l2)
  IN  IF l2 = 0 THEN Dist2(p, v) < Sq(d)
      ELSE IF dot <= 0 THEN Dist2(p, v) < Sq(d)
      ELSE IF dot >= l2 THEN Dist2(p, w) < Sq(d)
      ELSE IF cross < d * s THEN TRUE
      ELSE IF cross >= d * (s + 1) THEN FALSE
      ELSE Sq(cross) < Sq(d) * l2

RemoveAt(s, i) == SubSeq(s, 1, i - 1) \o SubSeq(s, i + 1, Len(s))

\* ---------------------------------------------------------------- bounds
\* update() runs at most MaxTicks times between two lifecycle commands
MaxTicks == 3
\* a rocket is launched while fewer than MaxRockets are in flight, a missile
\* is fired while fewer than MaxMissiles are
MaxRockets == 2
MaxMissiles == 1

\* ---------------------------------------------------------------- state
VARIABLES
  status,            \* useState status: the value last given to setStatus
  level,             \* useState level
  rendered,          \* the status and level the committed render closed over
  raf,               \* the callback requestAnimationFrame holds (requestRef)
  rocketsRef, missilesRef, explosionsRef, citiesRef, towersRef,
  meteorsRef, planesRef,
  formationTimerRef, currentFormationRef,
  scoreRef,
  ticks              \* calls of update() since the last lifecycle command

vars == << status, level, rendered, raf, rocketsRef, missilesRef,
           explosionsRef, citiesRef, towersRef, meteorsRef, planesRef,
           formationTimerRef, currentFormationRef, scoreRef, ticks >>

stores == << rocketsRef, missilesRef, explosionsRef, citiesRef, towersRef,
             meteorsRef, planesRef, formationTimerRef, currentFormationRef,
             scoreRef >>

NoFrame == [pending |-> FALSE]

\* ---------------------------------------------------------------- rendering
\* gameLoop as created by a render with this status and level (its closure)
GameLoopOf(st, lv) == [pending |-> TRUE, status |-> st, level |-> lv]

\* The effect of useEffect(..., [status, gameLoop]) at a commit: the cleanup
\* of the previous effect cancels the frame requestRef holds, then a frame is
\* requested while PLAYING and cancelled otherwise.
EffectFrame(st, lv) ==
  IF st = "PLAYING" THEN GameLoopOf(st, lv) ELSE NoFrame

\* React renders with the state as set and commits: the handlers and
\* gameLoop of this render replace the old ones and the effect runs.
Commit ==
  /\ rendered # [status |-> status, level |-> level]
  /\ rendered' = [status |-> status, level |-> level]
  /\ raf' = EffectFrame(status, level)
  /\ UNCHANGED << status, level, stores, ticks >>

\* ---------------------------------------------------------------- initGame
NewCity(p) ==
  [id |-> p.id, x |-> p.x, y |-> p.y, width |-> 40, height |-> 20,
   health |-> CITY_HEALTH, maxHealth |-> CITY_HEALTH, destroyed |-> FALSE]

\* a variant that refills every tower, preserveAmmo or not
InitialAmmoRefilled(p, currentTowers, preserveAmmo) == p.maxAmmo

\* a variant that keeps the ammo of an existing tower, preserveAmmo or not
InitialAmmoKept(p, currentTowers, preserveAmmo) ==
  LET existing == {i \in 1..Len(currentTowers) : currentTowers[i].id = p.id}
  IN  IF existing # {}
      THEN currentTowers[CHOOSE i \in existing : \A j \in existing : i <= j].ammo
      ELSE p.maxAmmo

\* the ammo a tower starts with: kept from the tower of the same id when
\* preserveAmmo is set and there is one
InitialAmmo(p, currentTowers, preserveAmmo) ==
  LET existing == {i \in 1..Len(currentTowers) : currentTowers[i].id = p.id}
  IN  IF preserveAmmo /\ existing # {}
      THEN currentTowers[CHOOSE i \in existing : \A j \in existing : i <= j].ammo
      ELSE p.maxAmmo

NewTower(p, currentTowers, preserveAmmo) ==
  [id |-> p.id, x |-> p.x, y |-> p.y, maxAmmo |-> p.maxAmmo,
   targetX |-> p.x, targetY |-> p.y,
   ammo |-> InitialAmmo(p, currentTowers, preserveAmmo),
   health |-> TOWER_HEALTH, maxHealth |-> TOWER_HEALTH, destroyed |-> FALSE]

\* initGame(resetLevel, preserveAmmo), but for setLevel(1), which the caller
\* of this operator states
InitGame(preserveAmmo) ==
  /\ rocketsRef' = << >>
  /\ missilesRef' = << >>
  /\ explosionsRef' = << >>
  /\ citiesRef' = [i \in 1..Len(CITY_POSITIONS) |-> NewCity(CITY_POSITIONS[i])]
  /\ towersRef' = [i \in 1..Len(TOWER_POSITIONS) |->
                     NewTower(TOWER_POSITIONS[i], towersRef, preserveAmmo)]
  /\ meteorsRef' = << >>
  /\ planesRef' = << >>
  /\ formationTimerRef' = 0
  /\ currentFormationRef' = 0
  /\ scoreRef' = 0

\* startGame, the button of the START, WON and LOST overlays; the click is a
\* discrete event, which React renders and commits before it returns
StartGame ==
  /\ rendered.status \in {"START", "WON", "LOST"}
  /\ InitGame(FALSE)
  /\ level' = 1
  /\ status' = "PLAYING"
  /\ rendered' = [status |-> "PLAYING", level |-> 1]
  /\ raf' = EffectFrame("PLAYING", 1)
  /\ ticks' = 0

\* nextLevel, the button of the LEVEL_UP overlay
NextLevel ==
  /\ rendered.status = "LEVEL_UP"
  /\ InitGame(TRUE)
  /\ level' = level + 1
  /\ status' = "PLAYING"
  /\ rendered' = [status |-> "PLAYING", level |-> level + 1]
  /\ raf' = EffectFrame("PLAYING", level + 1)
  /\ ticks' = 0


\* ---------------------------------------------------------------- ids
\* Math.random().toString(36).substr(2, 9): an id no entity in flight has.
\* The model takes the least number not in use.
IdsOf(seq) == {seq[i].id : i \in 1..Len(seq)}

UsedIds ==
  IdsOf(rocketsRef) \cup IdsOf(missilesRef) \cup IdsOf(explosionsRef)
    \cup IdsOf(meteorsRef) \cup IdsOf(planesRef)

FreshId(used) == CHOOSE n \in 1..(Cardinality(used) + 1) : n \notin used

\* ---------------------------------------------------------------- fire
\* the points of the arena the player clicks in the model
ClickPoints == { [x |-> 40, y |-> 300], [x |-> 310, y |-> 540] }

\* a variant that lets a tower without ammo fire
EligibleWithoutAmmo(tower) == ~tower.destroyed

\* a variant that lets a destroyed tower fire
EligibleWreck(tower) == tower.ammo > 0

Eligible(tower) == ~tower.destroyed /\ tower.ammo > 0

\* a variant that takes the first eligible tower, however far
BestTowerFirst(towers, x) ==
  LET el == {i \in 1..Len(towers) : ~towers[i].destroyed /\ towers[i].ammo > 0}
  IN  IF el = {} THEN 0 ELSE CHOOSE i \in el : \A j \in el : i <= j

\* The index of bestTower after the forEach of handleCanvasClick, 0 for
\* null: the first tower in store order among the eligible ones at the
\* least |tower.x - x| (the loop replaces bestTower on dist < minDist only).
BestTower(towers, x) ==
  LET el == {i \in 1..Len(towers) : Eligible(towers[i])}
  IN  IF el = {} THEN 0
      ELSE CHOOSE i \in el : \A j \in el :
             \/ Abs(towers[i].x - x) < Abs(towers[j].x - x)
             \/ Abs(towers[i].x - x) = Abs(towers[j].x - x) /\ i <= j

NewMissile(id, tower, x, y) ==
  [id |-> id,
   start |-> [x |-> tower.x, y |-> tower.y],
   current |-> [x |-> tower.x, y |-> tower.y],
   target |-> [x |-> x, y |-> y],
   speed |-> MISSILE_SPEED,
   angle |-> Atan2(y - tower.y, x - tower.x),
   towerId |-> tower.id]

\* tower.ammo -= 1
SpendAmmo(tower) == [tower EXCEPT !.ammo = @ - 1]

\* handleCanvasClick with the click already scaled to the arena: (x, y).
\* The handler is the one of the committed render and reads its status.
HandleCanvasClick(x, y) ==
  LET b == BestTower(towersRef, x)
  IN  /\ b = 0 \/ Len(missilesRef) < MaxMissiles
      /\ IF rendered.status = "PLAYING" /\ b # 0
         THEN /\ towersRef' = [towersRef EXCEPT ![b] = SpendAmmo(@)]
              /\ missilesRef' =
                   Append(missilesRef,
                          NewMissile(FreshId(UsedIds), towersRef[b], x, y))
         ELSE UNCHANGED << towersRef, missilesRef >>
      /\ UNCHANGED << status, level, rendered, raf, rocketsRef, explosionsRef,
                      citiesRef, meteorsRef, planesRef, formationTimerRef,
                      currentFormationRef, scoreRef, ticks >>


\* ---------------------------------------------------------------- update
\* The passes of update() work on a record t of the stores they change:
\*   rockets, missiles, explosions, cities, towers, planes, score, used
\* (used: the ids taken since the tick began).  Array.prototype.forEach
\* visits the indices 0 .. n-1 for the length n the array has when the loop
\* starts and reads the element the array holds at that index at that time;
\* an index the array no longer has is passed over.  So after splice(k, 1)
\* inside the callback the element that follows the removed one is not
\* visited.  Below k counts from 1.

NewExplosion(id, x, y) ==
  [id |-> id, x |-> x, y |-> y, radius |-> 0,
   maxRadius |-> EXPLOSION_MAX_RADIUS, growing |-> TRUE]

\* one step of a rocket or a missile along its heading
Advance(e) ==
  [e EXCEPT !.current = [x |-> e.current.x + CosTimes(e.angle, e.speed),
                         y |-> e.current.y + SinTimes(e.angle, e.speed)]]

\* a variant that takes a rocket at the height of its target as in flight
HitGroundPassed(rocket) == rocket.current.y > rocket.target.y

\* a rocket has reached or passed the height of its target
HitGround(rocket) == rocket.current.y >= rocket.target.y

\* the impact at point on a city or a tower g
InImpactBox(g, point) ==
  /\ ~g.destroyed
  /\ Abs(g.x - point.x) < IMPACT_DX
  /\ Abs(g.y - point.y) < IMPACT_DY

\* a variant that damages what is in the box, destroyed or not
ImpactDamageOnWrecks(g, point) ==
  IF Abs(g.x - point.x) < IMPACT_DX /\ Abs(g.y - point.y) < IMPACT_DY
  THEN [g EXCEPT !.health = @ - 1, !.destroyed = (g.health - 1 <= 0)]
  ELSE g

\* a variant that destroys one impact late
ImpactDamageLate(g, point) ==
  IF ~g.destroyed /\ Abs(g.x - point.x) < IMPACT_DX
                  /\ Abs(g.y - point.y) < IMPACT_DY
  THEN [g EXCEPT !.health = @ - 1, !.destroyed = (g.health - 1 < 0)]
  ELSE g

ImpactDamage(g, point) ==
  IF InImpactBox(g, point)
  THEN [g EXCEPT !.health = @ - 1, !.destroyed = (g.health - 1 <= 0)]
  ELSE g

\* the callback of rocketsRef.current.forEach on a rocket that hit the ground
Impact(t, k, rocket) ==
  LET id == FreshId(t.used)
  IN  [t EXCEPT
         !.explosions = Append(@, NewExplosion(id, rocket.current.x,
                                               rocket.current.y)),
         !.cities = [i \in 1..Len(t.cities) |->
                       ImpactDamage(t.cities[i], rocket.current)],
         !.towers = [i \in 1..Len(t.towers) |->
                       ImpactDamage(t.towers[i], rocket.current)],
         !.rockets = RemoveAt(@, k),
         !.used = @ \cup {id}]

RECURSIVE UpdateRockets(_, _, _)
\* rocketsRef.current.forEach((rocket, index) => ...), from index k on
UpdateRockets(k, n, t) ==
  IF k > n THEN t
  ELSE IF k > Len(t.rockets) THEN UpdateRockets(k + 1, n, t)
  ELSE LET rocket == Advance(t.rockets[k])
           moved == [t EXCEPT !.rockets[k] = rocket]
       IN  IF HitGround(rocket)
           THEN UpdateRockets(k + 1, n, Impact(moved, k, rocket))
           ELSE UpdateRockets(k + 1, n, moved)

\* a rocket is in the laser hitbox of the beam start..current of a missile
InBeam(rocket, missile) ==
  DistToSegmentLess(rocket.current, missile.start, missile.current,
                    BEAM_ROCKET_DIST)

\* a variant that awards the score and leaves the rocket in the store
BeamRocketsKept(j, n, t, missile) ==
  [t EXCEPT !.score = @ + SCORE_PER_ROCKET *
                          Cardinality({i \in j..Min(n, Len(t.rockets)) :
                                         InBeam(t.rockets[i], missile)})]

RECURSIVE BeamRockets(_, _, _, _)
\* rocketsRef.current.forEach((rocket, rIndex) => ...) of the missile pass
BeamRockets(j, n, t, missile) ==
  IF j > n THEN t
  ELSE IF j > Len(t.rockets) THEN BeamRockets(j + 1, n, t, missile)
  ELSE IF InBeam(t.rockets[j], missile)
       THEN BeamRockets(j + 1, n,
                        [t EXCEPT !.rockets = RemoveAt(@, j),
                                  !.score = @ + SCORE_PER_ROCKET],
                        missile)
       ELSE BeamRockets(j + 1, n, t, missile)

\* a variant that goes on damaging a plane that is destroyed
DamagePlaneWrecked(plane, hit, d) ==
  IF hit
  THEN [plane EXCEPT !.health = @ - d,
                     !.destroyed = plane.destroyed \/ (plane.health - d <= 0)]
  ELSE plane

\* a plane after the damage d (in hundredths) it takes when hit
DamagePlane(plane, hit, d) ==
  IF ~plane.destroyed /\ hit
  THEN [plane EXCEPT !.health = @ - d, !.destroyed = (plane.health - d <= 0)]
  ELSE plane

\* the planes newly destroyed between two versions of the store
NewlyDestroyed(before, after) ==
  Cardinality({i \in 1..Len(before) :
                 ~before[i].destroyed /\ after[i].destroyed})

\* planesRef.current.forEach(plane => ...) of the missile pass
BeamPlanes(t, missile) ==
  LET after == [i \in 1..Len(t.planes) |->
                  DamagePlane(t.planes[i],
                              DistToSegmentLess(t.planes[i], missile.start,
                                                missile.current,
                                                BEAM_PLANE_DIST),
                              BEAM_PLANE_DAMAGE)]
  IN  [t EXCEPT !.planes = after,
                !.score = @ + PLANE_BONUS * NewlyDestroyed(t.planes, after)]

\* distToTarget < missile.speed
Arrived(missile) == Dist2(missile.target, missile.current) < Sq(missile.speed)

\* the end of the callback of the missile pass: the blast at the aim point
Arrive(t, k, missile) ==
  IF Arrived(missile)
  THEN LET id == FreshId(t.used)
       IN  [t EXCEPT
              !.explosions = Append(@, NewExplosion(id, missile.target.x,
                                                    missile.target.y)),
              !.missiles = RemoveAt(@, k),
              !.used = @ \cup {id}]
  ELSE t

RECURSIVE UpdateMissiles(_, _, _)
\* missilesRef.current.forEach((missile, index) => ...), from index k on
UpdateMissiles(k, n, t) ==
  IF k > n THEN t
  ELSE IF k > Len(t.missiles) THEN UpdateMissiles(k + 1, n, t)
  ELSE LET missile == Advance(t.missiles[k])
           moved == [t EXCEPT !.missiles[k] = missile]
           beamed == BeamPlanes(BeamRockets(1, Len(moved.rockets), moved,
                                            missile),
                                missile)
       IN  UpdateMissiles(k + 1, n, Arrive(beamed, k, missile))


\* the growth or the shrinking of a blast in one tick
Pulse(exp) ==
  IF exp.growing
  THEN [exp EXCEPT !.radius = @ + EXPLOSION_SPEED,
                   !.growing = ~(exp.radius + EXPLOSION_SPEED >= exp.maxRadius)]
  ELSE [exp EXCEPT !.radius = @ - EXPLOSION_SPEED]

\* the blast is spliced out of the store: it was shrinking and is at 0
Spent(before, after) == ~before.growing /\ after.radius <= 0

\* dist < exp.radius for a point p (a radius is in halves of a unit)
InBlast(p, exp) ==
  /\ exp.radius > 0
  /\ 4 * (Sq(p.x - exp.x) + Sq(p.y - exp.y)) < Sq(exp.radius)

RECURSIVE BlastRockets(_, _, _, _)
\* rocketsRef.current.forEach((rocket, rIndex) => ...) of the blast pass
BlastRockets(j, n, t, exp) ==
  IF j > n THEN t
  ELSE IF j > Len(t.rockets) THEN BlastRockets(j + 1, n, t, exp)
  ELSE IF InBlast(t.rockets[j].current, exp)
       THEN BlastRockets(j + 1, n,
                         [t EXCEPT !.rockets = RemoveAt(@, j),
                                   !.score = @ + SCORE_PER_ROCKET],
                         exp)
       ELSE BlastRockets(j + 1, n, t, exp)

\* planesRef.current.forEach(plane => ...) of the blast pass
BlastPlanes(t, exp) ==
  LET after == [i \in 1..Len(t.planes) |->
                  DamagePlane(t.planes[i], InBlast(t.planes[i], exp),
                              BLAST_PLANE_DAMAGE)]
  IN  [t EXCEPT !.planes = after,
                !.score = @ + PLANE_BONUS * NewlyDestroyed(t.planes, after)]

RECURSIVE UpdateExplosions(_, _, _)
\* explosionsRef.current.forEach((exp, index) => ...), from index k on
UpdateExplosions(k, n, t) ==
  IF k > n THEN t
  ELSE IF k > Len(t.explosions) THEN UpdateExplosions(k + 1, n, t)
  ELSE LET exp == Pulse(t.explosions[k])
           kept == IF Spent(t.explosions[k], exp)
                   THEN [t EXCEPT !.explosions = RemoveAt(@, k)]
                   ELSE [t EXCEPT !.explosions[k] = exp]
       IN  UpdateExplosions(k + 1, n,
             BlastPlanes(BlastRockets(1, Len(kept.rockets), kept, exp), exp))

\* a variant that asks for more than the target score
JudgeAboveTarget(st, lv, score, towers) ==
  LET byScore == IF score > lv * LEVEL_TARGET_STEP
                 THEN (IF lv >= LAST_LEVEL THEN "WON" ELSE "LEVEL_UP")
                 ELSE st
  IN  IF \A i \in 1..Len(towers) : towers[i].destroyed THEN "LOST"
      ELSE byScore

\* a variant that looks at the towers first and at the score last
JudgeScoreLast(st, lv, score, towers) ==
  LET byTowers == IF \A i \in 1..Len(towers) : towers[i].destroyed
                  THEN "LOST" ELSE st
  IN  IF score >= lv * LEVEL_TARGET_STEP
      THEN (IF lv >= LAST_LEVEL THEN "WON" ELSE "LEVEL_UP")
      ELSE byTowers

\* a variant that takes the level after the last one for the last
JudgePastLast(st, lv, score, towers) ==
  LET byScore == IF score >= lv * LEVEL_TARGET_STEP
                 THEN (IF lv > LAST_LEVEL THEN "WON" ELSE "LEVEL_UP")
                 ELSE st
  IN  IF \A i \in 1..Len(towers) : towers[i].destroyed THEN "LOST"
      ELSE byScore

\* Check Win/Loss/LevelUp: the status after the setStatus calls of the tick,
\* st being the status before them and lv the level update() closed over
Judge(st, lv, score, towers) ==
  LET byScore == IF score >= lv * LEVEL_TARGET_STEP
                 THEN (IF lv >= LAST_LEVEL THEN "WON" ELSE "LEVEL_UP")
                 ELSE st
  IN  IF \A i \in 1..Len(towers) : towers[i].destroyed THEN "LOST"
      ELSE byScore

\* ---------------------------------------------------------------- formation
\* the timer and the formation index after one call
NextTimer(timer) == IF timer + 1 > FORMATION_PERIOD THEN 0 ELSE timer + 1

NextFormation(timer, formation) ==
  IF timer + 1 > FORMATION_PERIOD THEN (formation + 1) % 3 ELSE formation

\* the height a tower at index i (from 0) aims for in a formation
FormationY(formation, i) ==
  LET basePos == TOWER_POSITIONS[i + 1]
      n == Len(TOWER_POSITIONS)
  IN  IF formation = 1 THEN basePos.y - 30 - Abs(i - (n \div 2)) * 40
      ELSE IF formation = 2
           THEN basePos.y - 80 + (Sq(2 * i - (n - 1)) * 8) \div 4
           ELSE basePos.y - 20

\* x += (target - x) * 0.03, the step rounded away from zero
Smooth(x, target) == x + CeilDiv((target - x) * 3, 100)

\* a variant that moves the destroyed towers with the others
MoveTowerWrecked(tower, i, formation) ==
  LET tx == TOWER_POSITIONS[i + 1].x
      ty == FormationY(formation, i)
  IN  [tower EXCEPT !.targetX = tx, !.targetY = ty,
                    !.x = Smooth(tower.x, tx),
                    !.y = Smooth(tower.y, ty)]

MoveTower(tower, i, formation) ==
  IF tower.destroyed THEN tower
  ELSE LET tx == TOWER_POSITIONS[i + 1].x
           ty == FormationY(formation, i)
       IN  [tower EXCEPT !.targetX = tx, !.targetY = ty,
                         !.x = Smooth(tower.x, tx),
                         !.y = Smooth(tower.y, ty)]

\* the towers after updatePlayerFormation, formation being the new index
UpdatePlayerFormation(towers, formation) ==
  [i \in 1..Len(towers) |-> MoveTower(towers[i], i - 1, formation)]


\* ---------------------------------------------------------------- meteors
\* the draws of Math.random() for a background meteor the model takes
MeteorDraws ==
  { [size |-> 40, left |-> TRUE, startY |-> 100, drift |-> 0, speed |-> 1] }

NewMeteor(id, d) ==
  LET startX == IF d.left THEN -d.size ELSE GAME_WIDTH + d.size
      targetX == IF startX < 0 THEN GAME_WIDTH + d.size ELSE -d.size
      angle == Atan2(d.drift, targetX - startX)
  IN  [id |-> id, x |-> startX, y |-> d.startY, size |-> d.size,
       speedX |-> CosTimes(angle, d.speed),
       speedY |-> SinTimes(angle, d.speed), angle |-> angle]

MoveMeteor(m) == [m EXCEPT !.x = @ + m.speedX, !.y = @ + m.speedY]

MeteorGone(m) ==
  \/ m.x < -200 \/ m.x > GAME_WIDTH + 200
  \/ m.y < -200 \/ m.y > GAME_HEIGHT + 200

RECURSIVE UpdateMeteors(_, _, _)
\* meteorsRef.current.forEach((m, index) => ...), from index k on
UpdateMeteors(k, n, meteors) ==
  IF k > n THEN meteors
  ELSE IF k > Len(meteors) THEN UpdateMeteors(k + 1, n, meteors)
  ELSE LET m == MoveMeteor(meteors[k])
       IN  IF MeteorGone(m)
           THEN UpdateMeteors(k + 1, n, RemoveAt(meteors, k))
           ELSE UpdateMeteors(k + 1, n, [meteors EXCEPT ![k] = m])

\* ---------------------------------------------------------------- planes
\* an active plane flies on and oscillates; a destroyed one falls, its
\* drift of direction * 0.5 rounded to the grid
MovePlane(p) ==
  IF ~p.destroyed
  THEN LET x == p.x + p.direction * p.speed
       IN  [p EXCEPT !.x = x, !.y = p.targetY + Sin20(x)]
  ELSE [p EXCEPT !.y = @ + 3, !.x = @ + RoundDiv(p.direction * 5, 10)]

PlaneGone(p) ==
  IF ~p.destroyed THEN p.x < -100 \/ p.x > GAME_WIDTH + 100
  ELSE p.y > GAME_HEIGHT

RECURSIVE UpdatePlanes(_, _, _)
\* planesRef.current.forEach((p, index) => ...), from index k on
UpdatePlanes(k, n, planes) ==
  IF k > n THEN planes
  ELSE IF k > Len(planes) THEN UpdatePlanes(k + 1, n, planes)
  ELSE LET p == MovePlane(planes[k])
       IN  IF PlaneGone(p)
           THEN UpdatePlanes(k + 1, n, RemoveAt(planes, k))
           ELSE UpdatePlanes(k + 1, n, [planes EXCEPT ![k] = p])

ActivePlanes(planes) == {i \in 1..Len(planes) : ~planes[i].destroyed}

\* maxPlanes of spawnPlanes
PlaneCap(lv) == 5 + lv \div 2

\* speed = (1 + Math.random() * 1.5) * (1 + (level - 1) * 0.1): the whole
\* speeds s with m <= s < 2.5 * m for the multiplier m = (9 + level) / 10
PlaneSpeeds(lv) == {s \in 1..5 : 10 * s >= 9 + lv /\ 20 * s < 5 * (9 + lv)}

\* the draws of Math.random() for a spawn of planes the model takes
PlaneDraws(lv) ==
  { [formationType |-> f, direction |-> IF f = 1 THEN -1 ELSE 1,
     baseTargetY |-> 100, speed |-> s] :
      f \in 0..2,
      s \in {CHOOSE m \in PlaneSpeeds(lv) : \A o \in PlaneSpeeds(lv) : m <= o} }

NewPlane(id, x, y, d, lv) ==
  [id |-> id, x |-> x, y |-> y, targetY |-> y,
   health |-> 100 * (7 + (lv - 1)), maxHealth |-> 100 * (7 + (lv - 1)),
   speed |-> d.speed, direction |-> d.direction, destroyed |-> FALSE,
   lastFired |-> 0]

\* the planes one spawn pushes, in order; ids: the fresh ids they take
SpawnedPlanes(d, lv, ids) ==
  LET startX == IF d.direction = 1 THEN -50 ELSE GAME_WIDTH + 50
  IN  IF d.formationType = 0
      THEN << NewPlane(ids[1], startX, d.baseTargetY, d, lv) >>
      ELSE IF d.formationType = 1
      THEN [i \in 1..3 |->
              NewPlane(ids[i],
                       startX + (IF i = 1 THEN 0 ELSE -d.direction * 40),
                       d.baseTargetY
                         + (IF i = 1 THEN 0 ELSE IF i = 2 THEN -40 ELSE 40),
                       d, lv)]
      ELSE [i \in 1..3 |->
              NewPlane(ids[i], startX - d.direction * (i - 1) * 60,
                       d.baseTargetY, d, lv)]

\* three ids no entity has
FreshIds(used) ==
  LET a == FreshId(used)
      b == FreshId(used \cup {a})
      c == FreshId(used \cup {a, b})
  IN  << a, b, c >>

\* spawnPlanes past its Math.random() gate, with the draws d
SpawnPlanes(planes, lv, d, used) ==
  IF Cardinality(ActivePlanes(planes)) >= PlaneCap(lv) THEN planes
  ELSE planes \o SpawnedPlanes(d, lv, FreshIds(used))


\* ---------------------------------------------------------------- rockets
\* the timestamp Date.now() leaves in plane.lastFired (0: never fired)
FiredStamp == 1

\* speed = (0.5 + Math.random()) * (1 + (level - 1) * 0.15): the whole speeds
\* s with 0.5 * m <= s < 1.5 * m for the multiplier m = (85 + 15 * level) / 100
RocketSpeeds(lv) ==
  {s \in 1..6 : 200 * s >= 85 + 15 * lv /\ 200 * s < 3 * (85 + 15 * lv)}

\* a variant that aims at the destroyed ones as well
TargetsWithWrecks(cities, towers) == cities \o towers

\* the targets of spawnRocket: the cities and then the towers not destroyed
Targets(cities, towers) ==
  SelectSeq(cities, LAMBDA c : ~c.destroyed)
    \o SelectSeq(towers, LAMBDA w : ~w.destroyed)

\* The draws of spawnRocket past its Math.random() gate: the plane among
\* the active ones, whether its cooldown has run out (it has for a plane
\* that never fired, lastFired being 0; for another one this is a matter of
\* the clock), the target (the first or the last one), the jitter of the aim
\* (none at the first target, the full 10 to the left at the last one) and
\* the speed.
RocketDraws(planes, cities, towers, lv) ==
  { d \in { [plane |-> p, cooled |-> c, target |-> g, jitter |-> j,
             speed |-> s] :
               p \in ActivePlanes(planes), c \in BOOLEAN,
               g \in {1, Max(1, Len(Targets(cities, towers)))}, j \in {-10, 0},
               s \in {CHOOSE m \in RocketSpeeds(lv) :
                        \A o \in RocketSpeeds(lv) : m >= o} } :
      /\ d.cooled \/ planes[d.plane].lastFired # 0
      /\ d.jitter = IF d.target = 1 THEN 0 ELSE -10 }

NewRocket(id, plane, target, d) ==
  LET targetX == target.x + d.jitter
      targetY == target.y
  IN  [id |-> id,
       start |-> [x |-> plane.x, y |-> plane.y],
       current |-> [x |-> plane.x, y |-> plane.y],
       target |-> [x |-> targetX, y |-> targetY],
       speed |-> d.speed,
       angle |-> Atan2(targetY - plane.y, targetX - plane.x)]

\* plane d.plane may fire: its cooldown has run out
MayFire(planes, d) == d.cooled \/ planes[d.plane].lastFired = 0

\* the planes after spawnRocket with the draws d: plane.lastFired = now
SpawnRocketPlanes(planes, d) ==
  IF MayFire(planes, d)
  THEN [planes EXCEPT ![d.plane].lastFired = FiredStamp]
  ELSE planes

\* the rockets after spawnRocket with the draws d
SpawnRocket(rockets, planes, cities, towers, d, used) ==
  LET targets == Targets(cities, towers)
  IN  IF MayFire(planes, d) /\ Len(targets) > 0
      THEN Append(rockets,
                  NewRocket(FreshId(used), planes[d.plane], targets[d.target], d))
      ELSE rockets


\* ---------------------------------------------------------------- the tick
\* the stores the collision passes of update() work on
TickStart ==
  [rockets |-> rocketsRef, missiles |-> missilesRef,
   explosions |-> explosionsRef, cities |-> citiesRef, towers |-> towersRef,
   planes |-> planesRef, score |-> scoreRef, used |-> UsedIds]

AfterRockets == UpdateRockets(1, Len(rocketsRef), TickStart)

AfterMissiles == UpdateMissiles(1, Len(missilesRef), AfterRockets)

\* the stores after the three collision passes of update()
AfterExplosions ==
  UpdateExplosions(1, Len(AfterMissiles.explosions), AfterMissiles)

\* The draws of Math.random() in one tick: meteor, the draws of a meteor;
\* planes, those of a spawn of planes; rocket, those of a rocket of a
\* plane.  << >> stands for a draw that does not pass its gate, a
\* one-element tuple holds the draws of one that does.
NoDraws == [meteor |-> << >>, planes |-> << >>, rocket |-> << >>]

\* the planes spawnRocket finds: moved, and joined by those spawned
PlanesAtSpawn(t, lv, d) ==
  LET moved == UpdatePlanes(1, Len(t.planes), t.planes)
  IN  IF d.planes = << >> THEN moved
      ELSE SpawnPlanes(moved, lv, d.planes[1],
                       t.used \cup {FreshId(t.used)})

\* update() as created by a render with level lv, from the stores t the
\* collision passes leave, with the draws d
Update(t, lv, d) ==
  LET formation == NextFormation(formationTimerRef, currentFormationRef)
      towers == UpdatePlayerFormation(t.towers, formation)
      meteors == IF d.meteor = << >> THEN meteorsRef
                 ELSE Append(meteorsRef,
                             NewMeteor(FreshId(t.used), d.meteor[1]))
      planes == PlanesAtSpawn(t, lv, d)
      used == t.used \cup IdsOf(meteors) \cup IdsOf(planes)
  IN  /\ status' = Judge(status, lv, t.score, t.towers)
      /\ scoreRef' = t.score
      /\ missilesRef' = t.missiles
      /\ explosionsRef' = t.explosions
      /\ citiesRef' = t.cities
      /\ formationTimerRef' = NextTimer(formationTimerRef)
      /\ currentFormationRef' = formation
      /\ towersRef' = towers
      /\ meteorsRef' = UpdateMeteors(1, Len(meteors), meteors)
      /\ planesRef' = IF d.rocket = << >> THEN planes
                      ELSE SpawnRocketPlanes(planes, d.rocket[1])
      /\ rocketsRef' = IF d.rocket = << >> THEN t.rockets
                       ELSE SpawnRocket(t.rockets, planes, t.cities, towers,
                                        d.rocket[1], used)

\* The draws a tick takes in the model.  A meteor comes into an empty sky
\* only; a spawn of planes comes into an empty sky or into one that is one
\* plane short of the cap; the rockets in flight are bounded;
\* and of the three gates (0.5%, 2% and 1.5% a tick at level 1) at most one
\* passes in a tick.
MeteorChoices ==
  IF Len(meteorsRef) = 0
  THEN {[NoDraws EXCEPT !.meteor = << m >>] : m \in MeteorDraws} ELSE {}

PlaneChoices(t, lv) ==
  IF Len(t.planes) = 0 \/ Cardinality(ActivePlanes(t.planes)) = PlaneCap(lv) - 1
  THEN {[NoDraws EXCEPT !.planes = << p >>] : p \in PlaneDraws(lv)} ELSE {}

RocketChoices(t, lv) ==
  IF Len(t.rockets) < MaxRockets
  THEN {[NoDraws EXCEPT !.rocket = << r >>] :
          r \in RocketDraws(PlanesAtSpawn(t, lv, NoDraws), t.cities,
                            t.towers, lv)}
  ELSE {}

TickDraws(t, lv) ==
  {NoDraws} \cup MeteorChoices \cup PlaneChoices(t, lv) \cup RocketChoices(t, lv)

\* gameLoop, the callback of requestAnimationFrame: it runs with the status
\* and the update() of the render that created it, and asks for the next
\* frame with itself
GameLoop ==
  /\ raf.pending
  /\ IF raf.status = "PLAYING"
     THEN /\ ticks < MaxTicks
          /\ LET t == AfterExplosions
             IN  \E d \in TickDraws(t, raf.level) : Update(t, raf.level, d)
          /\ ticks' = ticks + 1
          /\ raf' = raf
     ELSE /\ raf' = NoFrame
          /\ UNCHANGED << status, stores, ticks >>
  /\ UNCHANGED << level, rendered >>

\* ---------------------------------------------------------------- behaviour
\* the state when App has mounted
Mounted ==
  /\ status = "START"
  /\ level = 1
  /\ rendered = [status |-> "START", level |-> 1]
  /\ raf = NoFrame
  /\ rocketsRef = << >>
  /\ missilesRef = << >>
  /\ explosionsRef = << >>
  /\ citiesRef = << >>
  /\ towersRef = << >>
  /\ meteorsRef = << >>
  /\ planesRef = << >>
  /\ formationTimerRef = 0
  /\ currentFormationRef = 0
  /\ scoreRef = 0
  /\ ticks = 0

\* States in the middle of a level, which play reaches only after hundreds
\* of ticks: the towers have settled in the row formation, a plane that
\* passed over the target has two rockets on their way down to it, and the
\* score is 0 or one rocket short of the target of the level.
\*   lv    the level
\*   sc    the score
\*   last  tower 0 is the last one standing, one impact from destruction
\*   a0    the ammo tower 0 has left
\*   city  the rockets aim at city 0 (else at tower 0)
RowY(i) == FormationY(0, i)

SettledTower(i, lv, last, a0) ==
  LET p == TOWER_POSITIONS[i + 1]
      wreck == last /\ i # 0
  IN  [id |-> p.id, x |-> p.x, y |-> RowY(i), maxAmmo |-> p.maxAmmo,
       targetX |-> p.x, targetY |-> RowY(i),
       ammo |-> IF i = 0 THEN a0 ELSE IF lv = 1 THEN p.maxAmmo - 10 ELSE 20,
       health |-> IF wreck THEN 0 ELSE IF last THEN 1 ELSE TOWER_HEALTH,
       maxHealth |-> TOWER_HEALTH, destroyed |-> wreck]

\* the rocket a plane at (x, 100 + Sin20(x)) sent to target, steps before
\* the tick in which it comes down
FallingRocket(id, target, speed, steps) ==
  LET startY == target.y - speed * ((target.y - 100 - Sin20(target.x)) \div speed)
  IN  [id |-> id,
       start |-> [x |-> target.x, y |-> startY],
       current |-> [x |-> target.x, y |-> target.y - speed * steps],
       target |-> target,
       speed |-> speed,
       angle |-> Atan2(target.y - startY, 0)]

MidLevel(lv, sc, last, a0, city) ==
  LET target == IF city THEN [x |-> CITY_POSITIONS[1].x, y |-> CITY_POSITIONS[1].y]
                ELSE [x |-> TOWER_POSITIONS[1].x, y |-> RowY(0)]
      speed == CHOOSE m \in RocketSpeeds(lv) : \A o \in RocketSpeeds(lv) : m >= o
      pspeed == CHOOSE m \in PlaneSpeeds(lv) : \A o \in PlaneSpeeds(lv) : m <= o
      px == 500
  IN  /\ status = "PLAYING"
      /\ level = lv
      /\ rendered = [status |-> "PLAYING", level |-> lv]
      /\ raf = GameLoopOf("PLAYING", lv)
      /\ rocketsRef = << FallingRocket(1, target, speed, 1),
                         FallingRocket(2, target, speed, 2) >>
      /\ missilesRef = << >>
      /\ explosionsRef = << >>
      /\ citiesRef = [i \in 1..Len(CITY_POSITIONS) |-> NewCity(CITY_POSITIONS[i])]
      /\ towersRef = [i \in 1..Len(TOWER_POSITIONS) |->
                        SettledTower(i - 1, lv, last, a0)]
      /\ meteorsRef = << [NewMeteor(3, CHOOSE d \in MeteorDraws : TRUE)
                            EXCEPT !.x = 300] >>
      /\ planesRef = << [id |-> 4, x |-> px, y |-> 100 + Sin20(px),
                         targetY |-> 100, health |-> 100 * (7 + (lv - 1)),
                         maxHealth |-> 100 * (7 + (lv - 1)), speed |-> pspeed,
                         direction |-> 1, destroyed |-> FALSE,
                         lastFired |-> FiredStamp] >>
      /\ formationTimerRef = 200
      /\ currentFormationRef = 0
      /\ scoreRef = sc
      /\ ticks = 0

Init ==
  \/ Mounted
  \/ \E lv \in {1, LAST_LEVEL}, last \in BOOLEAN, a0 \in {0, 1}, city \in BOOLEAN :
       \E sc \in {0, lv * LEVEL_TARGET_STEP - SCORE_PER_ROCKET} :
         MidLevel(lv, sc, last, a0, city)

Next ==
  \/ StartGame
  \/ NextLevel
  \/ \E c \in ClickPoints : HandleCanvasClick(c.x, c.y)
  \/ GameLoop
  \/ Commit

Spec == Init /\ [][Next]_vars


\* ---------------------------------------------------------------- skirmishes
\* States of one level in which entities are close to one another: what a
\* level comes to when the player has fired, blasts are in the sky and the
\* planes have sent rockets after one another.
\*   lv, sc  the level and the score
\*   a0      the ammo of tower 0, the other towers having none
\*   rockets, explosions, planes            the stores
InLevel(lv, sc, a0, rockets, explosions, planes) ==
  /\ status = "PLAYING"
  /\ level = lv
  /\ rendered = [status |-> "PLAYING", level |-> lv]
  /\ raf = GameLoopOf("PLAYING", lv)
  /\ rocketsRef = rockets
  /\ missilesRef = << >>
  /\ explosionsRef = explosions
  /\ citiesRef = [i \in 1..Len(CITY_POSITIONS) |-> NewCity(CITY_POSITIONS[i])]
  /\ towersRef = [i \in 1..Len(TOWER_POSITIONS) |->
                    [SettledTower(i - 1, lv, FALSE, a0)
                       EXCEPT !.ammo = IF i = 1 THEN a0 ELSE 0]]
  /\ meteorsRef = << >>
  /\ planesRef = planes
  /\ formationTimerRef = 200
  /\ currentFormationRef = 0
  /\ scoreRef = sc
  /\ ticks = 0

\* a blast of the given radius (in halves of a unit) over tower 0
BlastOver(id, y, radius, growing) ==
  [id |-> id, x |-> TOWER_POSITIONS[1].x, y |-> y, radius |-> radius,
   maxRadius |-> EXPLOSION_MAX_RADIUS, growing |-> growing]

\* two rockets next to each other in the store and in the sky, 3 apart, on
\* their way down to tower 0, steps before they come down
RocketPair(steps) ==
  LET p == TOWER_POSITIONS[1]
  IN  << FallingRocket(1, [x |-> p.x, y |-> RowY(0)], 1, steps),
         FallingRocket(2, [x |-> p.x + 3, y |-> RowY(0)], 1, steps) >>

\* a plane on its way over the arena that has fired before
CruisingPlane(id, x, lv) ==
  LET s == CHOOSE m \in PlaneSpeeds(lv) : \A o \in PlaneSpeeds(lv) : m <= o
  IN  [id |-> id, x |-> x, y |-> 100 + Sin20(x), targetY |-> 100,
       health |-> 100 * (7 + (lv - 1)), maxHealth |-> 100 * (7 + (lv - 1)),
       speed |-> s, direction |-> 1, destroyed |-> FALSE,
       lastFired |-> FiredStamp]

\* the level as nextLevel has just opened it, tower 0 with one shot left
\* and the other towers with none
OpenedLevel(lv) ==
  /\ status = "PLAYING"
  /\ level = lv
  /\ rendered = [status |-> "PLAYING", level |-> lv]
  /\ raf = GameLoopOf("PLAYING", lv)
  /\ rocketsRef = << >> /\ missilesRef = << >> /\ explosionsRef = << >>
  /\ meteorsRef = << >> /\ planesRef = << >>
  /\ citiesRef = [i \in 1..Len(CITY_POSITIONS) |-> NewCity(CITY_POSITIONS[i])]
  /\ towersRef = [i \in 1..Len(TOWER_POSITIONS) |->
                    [NewTower(TOWER_POSITIONS[i], << >>, FALSE)
                       EXCEPT !.ammo = IF i = 1 THEN 1 ELSE 0]]
  /\ formationTimerRef = 0
  /\ currentFormationRef = 0
  /\ scoreRef = 0
  /\ ticks = 0

\* a plane over tower 0 with the health h (in hundredths) left, in two
\* blasts and next to the beam of a missile tower 0 has sent up
Dogfight(h) ==
  LET tower == [SettledTower(0, 1, FALSE, 0) EXCEPT !.ammo = 0]
      x == TOWER_POSITIONS[1].x
      y == 100 + Sin20(x)
  IN  /\ status = "PLAYING"
      /\ level = 1
      /\ rendered = [status |-> "PLAYING", level |-> 1]
      /\ raf = GameLoopOf("PLAYING", 1)
      /\ rocketsRef = << >>
      /\ missilesRef =
           << [NewMissile(2, tower, x, 60)
                 EXCEPT !.current = [x |-> x, y |-> y + MISSILE_SPEED + 2]] >>
      /\ explosionsRef = << BlastOver(3, y, 60, TRUE), BlastOver(4, y, 60, TRUE) >>
      /\ citiesRef = [i \in 1..Len(CITY_POSITIONS) |->
                        NewCity(CITY_POSITIONS[i])]
      /\ towersRef = [i \in 1..Len(TOWER_POSITIONS) |->
                        [SettledTower(i - 1, 1, FALSE, 0) EXCEPT !.ammo = 0]]
      /\ meteorsRef = << >>
      /\ planesRef = << [CruisingPlane(1, x, 1) EXCEPT !.health = h] >>
      /\ formationTimerRef = 200
      /\ currentFormationRef = 0
      /\ scoreRef = 0
      /\ ticks = 0

\* tower 0, the last one standing and one impact from destruction, with
\* two rockets on their way down to it, in the tick before the formation
\* changes
FormationTurn ==
  /\ status = "PLAYING"
  /\ level = 1
  /\ rendered = [status |-> "PLAYING", level |-> 1]
  /\ raf = GameLoopOf("PLAYING", 1)
  /\ rocketsRef = RocketPair(2)
  /\ missilesRef = << >>
  /\ explosionsRef = << >>
  /\ citiesRef = [i \in 1..Len(CITY_POSITIONS) |-> NewCity(CITY_POSITIONS[i])]
  /\ towersRef = [i \in 1..Len(TOWER_POSITIONS) |->
                    SettledTower(i - 1, 1, TRUE, 1)]
  /\ meteorsRef = << >>
  /\ planesRef = << >>
  /\ formationTimerRef = FORMATION_PERIOD
  /\ currentFormationRef = 0
  /\ scoreRef = 0
  /\ ticks = 0

Skirmishes ==
  \/ \E sc \in {0, LEVEL_TARGET_STEP - SCORE_PER_ROCKET} :
       \/ InLevel(1, sc, 1, RocketPair(3), << >>, << >>)
       \/ InLevel(1, sc, 1, RocketPair(51),
                  << BlastOver(3, RowY(0) - 20, 60, TRUE) >>, << >>)
  \/ InLevel(1, 0, 1, << >>,
             << BlastOver(1, 300, 3, FALSE), BlastOver(2, 200, 90, TRUE) >>,
             << >>)
  \/ InLevel(1, 0, 0, RocketPair(100), << >>,
             [i \in 1..(PlaneCap(1) - 1) |-> CruisingPlane(2 + i, 100 * i, 1)])
  \/ OpenedLevel(2)
  \/ \E h \in {3, 8, 13, 30} : Dogfight(h)
  \/ InLevel(1, 0, 0, RocketPair(1), << BlastOver(3, 300, 3, FALSE) >>, << >>)
  \/ FormationTurn

\* the points the player aims at in a skirmish: high above tower 0, the
\* place of tower 0 when a level opens, and a point 4 to the right of it
AimPoints ==
  { [x |-> TOWER_POSITIONS[1].x, y |-> 300],
    [x |-> TOWER_POSITIONS[1].x, y |-> TOWER_POSITIONS[1].y],
    [x |-> TOWER_POSITIONS[1].x + 4, y |-> TOWER_POSITIONS[1].y] }

\* the steps within one level: no lifecycle command
NextInLevel ==
  \/ \E c \in AimPoints : HandleCanvasClick(c.x, c.y)
  \/ GameLoop
  \/ Commit

SpecSkirmish == Skirmishes /\ [][NextInLevel]_vars


\* ---------------------------------------------------------------- geometry
\* distToSegment by itself.  The states: tower 0 has just fired, its
\* missile has not moved (start = current, a segment of length 0), and one
\* rocket is on its way down at most MaxOffset to the side of the tower and
\* at most MaxOffset above it.
MaxOffset == 10

JustFired ==
  \E dx \in -MaxOffset..MaxOffset, up \in 1..MaxOffset, c \in AimPoints :
    LET towers == [i \in 1..Len(TOWER_POSITIONS) |->
                     [SettledTower(i - 1, 1, FALSE, 0)
                        EXCEPT !.ammo = 0]]
    IN  /\ status = "PLAYING"
        /\ level = 1
        /\ rendered = [status |-> "PLAYING", level |-> 1]
        /\ raf = GameLoopOf("PLAYING", 1)
        /\ rocketsRef =
             << FallingRocket(1, [x |-> towers[1].x + dx, y |-> towers[1].y],
                              1, up) >>
        /\ missilesRef = << NewMissile(2, towers[1], c.x, c.y) >>
        /\ explosionsRef = << >>
        /\ citiesRef = [i \in 1..Len(CITY_POSITIONS) |->
                          NewCity(CITY_POSITIONS[i])]
        /\ towersRef = towers
        /\ meteorsRef = << >>
        /\ planesRef = << >>
        /\ formationTimerRef = 200
        /\ currentFormationRef = 0
        /\ scoreRef = 0
        /\ ticks = 0

\* the hit test of the missile pass for the rockets, taken by itself on the
\* missile as it stands
BeamProbe ==
  /\ Len(missilesRef) = 1
  /\ LET t == BeamRockets(1, Len(rocketsRef), TickStart, missilesRef[1])
     IN  /\ rocketsRef' = t.rockets
         /\ scoreRef' = t.score
  /\ UNCHANGED << status, level, rendered, raf, missilesRef, explosionsRef,
                  citiesRef, towersRef, meteorsRef, planesRef,
                  formationTimerRef, currentFormationRef, ticks >>

SpecGeometry == JustFired /\ [][BeamProbe]_vars

\* ================================================================ claims
\* the steps of a behaviour
IsTick == ticks' = ticks + 1

IsLifecycle == StartGame \/ NextLevel

IsFire == \E c \in ClickPoints : HandleCanvasClick(c.x, c.y)

TowerIx == 1..Len(towersRef)

CityIx == 1..Len(citiesRef)

\* ---------------------------------------------------------------- C1
\* C1: every Battery has ammo >= 0 in every reachable state; a tick changes
\* no Battery's ammo, also with Interceptors of a destroyed Battery in
\* flight; between two lifecycle commands no ammo increases, and the only
\* change is -1 on one Battery, by a fire command that creates an
\* Interceptor of that Battery.
C1_AmmoStep ==
  /\ IsTick => \A i \in TowerIx : towersRef'[i].ammo = towersRef[i].ammo
  /\ ~IsLifecycle =>
       /\ Len(towersRef') = Len(towersRef)
       /\ \A i \in TowerIx : towersRef'[i].ammo <= towersRef[i].ammo
       /\ \/ \A i \in TowerIx : towersRef'[i].ammo = towersRef[i].ammo
          \/ /\ IsFire
             /\ Len(missilesRef') = Len(missilesRef) + 1
             /\ \E b \in TowerIx :
                  /\ towersRef'[b].ammo = towersRef[b].ammo - 1
                  /\ missilesRef'[Len(missilesRef')].towerId = towersRef[b].id
                  /\ \A i \in TowerIx \ {b} :
                       towersRef'[i].ammo = towersRef[i].ammo

C1_AmmoNeverNegativeNorRefilled ==
  /\ [](\A i \in TowerIx : towersRef[i].ammo >= 0)
  /\ [][C1_AmmoStep]_vars

\* a tick has run with the Interceptor of a destroyed Battery in flight, the
\* Battery having spent its last ammo on it
C1_Witness ==
  /\ ticks >= 2
  /\ \E k \in 1..Len(missilesRef) : \E i \in TowerIx :
       /\ towersRef[i].id = missilesRef[k].towerId
       /\ towersRef[i].destroyed
       /\ towersRef[i].ammo = 0

\* ---------------------------------------------------------------- C2
\* C2: for every Installation and Battery destroyed implies health <= 0;
\* between two lifecycle commands health never increases, and a destroyed
\* one stays destroyed with its health as it is.
C2_Ground(g) == g.destroyed => g.health <= 0

C2_GroundStep(g, h) ==
  /\ h.health <= g.health
  /\ g.destroyed => h.destroyed /\ h.health = g.health

C2_HealthStep ==
  ~IsLifecycle =>
    /\ Len(citiesRef') = Len(citiesRef)
    /\ Len(towersRef') = Len(towersRef)
    /\ \A i \in CityIx : C2_GroundStep(citiesRef[i], citiesRef'[i])
    /\ \A i \in TowerIx : C2_GroundStep(towersRef[i], towersRef'[i])

C2_DestroyedIsTerminal ==
  /\ [](/\ \A i \in CityIx : C2_Ground(citiesRef[i])
        /\ \A i \in TowerIx : C2_Ground(towersRef[i]))
  /\ [][C2_HealthStep]_vars

\* a second rocket has come down on a tower two ticks after the first one
\* destroyed it
C2_Witness ==
  /\ ticks = 3
  /\ towersRef[1].destroyed
  /\ Cardinality({k \in 1..Len(explosionsRef) :
                    /\ explosionsRef[k].x = towersRef[1].x
                    /\ explosionsRef[k].y = towersRef[1].y}) = 2

\* ---------------------------------------------------------------- C3
\* C3: a tick that runs in PLAYING and leaves a Battery standing sets the
\* status to LEVEL_UP exactly when score >= level * 500 and level < 10, to
\* WON exactly when score >= level * 500 and level >= 10, and leaves it
\* PLAYING otherwise.
C3_TickStatus ==
  (/\ IsTick
   /\ status = "PLAYING"
   /\ \E i \in TowerIx : ~towersRef'[i].destroyed)
  => status' = IF scoreRef' >= level * 500
               THEN (IF level < 10 THEN "LEVEL_UP" ELSE "WON")
               ELSE "PLAYING"

C3_ScoreThresholdDecidesStatus == [][C3_TickStatus]_vars

\* level 1 has ended with a score of exactly 500
C3_Witness ==
  /\ status = "LEVEL_UP"
  /\ level = 1
  /\ scoreRef = 500
  /\ \E i \in TowerIx : ~towersRef[i].destroyed

\* ---------------------------------------------------------------- C4
\* C4: a tick after which every Battery is destroyed sets the status to
\* LOST, whatever the score.
C4_TickStatus ==
  (IsTick /\ \A i \in TowerIx : towersRef'[i].destroyed) => status' = "LOST"

C4_LostOutranksScore == [][C4_TickStatus]_vars

\* the last Battery fell in a tick in which the score reached the target
C4_Witness ==
  /\ status = "LOST"
  /\ ticks = 1
  /\ scoreRef >= level * 500
  /\ \A i \in TowerIx : towersRef[i].destroyed


\* ---------------------------------------------------------------- C5
\* C5: a tick runs only while the status is PLAYING: once a tick has set the
\* status to WON, LOST or LEVEL_UP no further tick runs, the frame that
\* tick asked for included.
C5_TickOnlyWhilePlaying == [][IsTick => status = "PLAYING"]_vars

\* ---------------------------------------------------------------- C6
\* C6: the next-level command in LEVEL_UP sets the status to PLAYING, adds 1
\* to the level, sets the score to 0, empties the stores of Attackers,
\* Interceptors, Blasts, Aircraft and Meteors, puts every Installation and
\* Battery at full health and not destroyed, and keeps every Battery's ammo.
C6_NextLevelStep ==
  NextLevel =>
    /\ status' = "PLAYING"
    /\ level' = level + 1
    /\ scoreRef' = 0
    /\ rocketsRef' = << >> /\ missilesRef' = << >> /\ explosionsRef' = << >>
    /\ planesRef' = << >> /\ meteorsRef' = << >>
    /\ Len(citiesRef') = 6 /\ Len(towersRef') = 5
    /\ \A i \in 1..6 : citiesRef'[i].health = 2 /\ ~citiesRef'[i].destroyed
    /\ \A i \in 1..5 : towersRef'[i].health = 5 /\ ~towersRef'[i].destroyed
    /\ \A i \in TowerIx : \E j \in 1..5 :
         /\ towersRef'[j].id = towersRef[i].id
         /\ towersRef'[j].ammo = towersRef[i].ammo

C7_FreshGame ==
  /\ status = "PLAYING"
  /\ level = 1
  /\ scoreRef = 0
  /\ rocketsRef = << >> /\ missilesRef = << >> /\ explosionsRef = << >>
  /\ planesRef = << >> /\ meteorsRef = << >>
  /\ formationTimerRef = 0
  /\ currentFormationRef = 0
  /\ citiesRef = [i \in 1..6 |->
       [id |-> CITY_POSITIONS[i].id, x |-> CITY_POSITIONS[i].x,
        y |-> CITY_POSITIONS[i].y, width |-> 40, height |-> 20,
        health |-> 2, maxHealth |-> 2, destroyed |-> FALSE]]
  /\ towersRef = [i \in 1..5 |->
       [id |-> TOWER_POSITIONS[i].id, x |-> TOWER_POSITIONS[i].x,
        y |-> TOWER_POSITIONS[i].y, maxAmmo |-> 300,
        targetX |-> TOWER_POSITIONS[i].x, targetY |-> TOWER_POSITIONS[i].y,
        ammo |-> 300, health |-> 5, maxHealth |-> 5, destroyed |-> FALSE]]

C7_StartGameStep ==
  (StartGame /\ rendered.status \in {"START", "WON", "LOST"}) => C7_FreshGame'

C7_StartGameResetsAll == [][C7_StartGameStep]_vars

\* a game has started anew
C7_Witness == C7_FreshGame /\ ticks = 0 /\ raf.pending


\* ---------------------------------------------------------------- C8
\* C8: a fire command at (x, y) in PLAYING with an eligible Battery (not
\* destroyed, ammo > 0) takes an eligible Battery at the least |battery.x - x|
\* among the eligible ones, takes 1 from its ammo and appends exactly one
\* Interceptor that starts and is at the Battery's position, has the target
\* (x, y) and heads from the Battery to (x, y); nothing else changes.
C8_CanFire(i) == ~towersRef[i].destroyed /\ towersRef[i].ammo > 0

C8_Fired(c, b) ==
  LET tower == towersRef[b]
      m == missilesRef'[Len(missilesRef')]
  IN  /\ C8_CanFire(b)
      /\ \A j \in TowerIx :
           C8_CanFire(j) => Abs(tower.x - c.x) <= Abs(towersRef[j].x - c.x)
      /\ towersRef' = [towersRef EXCEPT ![b].ammo = tower.ammo - 1]
      /\ Len(missilesRef') = Len(missilesRef) + 1
      /\ SubSeq(missilesRef', 1, Len(missilesRef)) = missilesRef
      /\ m.start = [x |-> tower.x, y |-> tower.y]
      /\ m.current = [x |-> tower.x, y |-> tower.y]
      /\ m.target = [x |-> c.x, y |-> c.y]
      /\ m.towerId = tower.id
      /\ m.angle.dx * (c.y - tower.y) = m.angle.dy * (c.x - tower.x)
      /\ m.angle.dx * (c.x - tower.x) + m.angle.dy * (c.y - tower.y) > 0
      /\ UNCHANGED << status, level, rocketsRef, explosionsRef, citiesRef,
                      meteorsRef, planesRef, formationTimerRef,
                      currentFormationRef, scoreRef >>

C8_FireStep ==
  \A c \in ClickPoints :
    (/\ HandleCanvasClick(c.x, c.y)
     /\ status = "PLAYING"
     /\ \E i \in TowerIx : C8_CanFire(i))
    => \E b \in TowerIx : C8_Fired(c, b)

C8_FireTakesNearestEligible == [][C8_FireStep]_vars

\* a click between towers 1 and 2, at 90 from both, has been served by
\* tower 1 and not by tower 0, which is eligible and farther
C8_Witness ==
  /\ status = "PLAYING"
  /\ Len(missilesRef) = 1
  /\ missilesRef[1].towerId = 1
  /\ missilesRef[1].current = missilesRef[1].start
  /\ missilesRef[1].target = [x |-> 310, y |-> 540]
  /\ towersRef[1].ammo = 1 /\ ~towersRef[1].destroyed
  /\ towersRef[2].ammo = 289

\* ---------------------------------------------------------------- C9
\* C9: a fire command with no eligible Battery (each one destroyed or out
\* of ammo) changes nothing: no Interceptor, no ammo, no score, no status.
C9_FireStep ==
  (/\ IsFire
   /\ \A i \in TowerIx : towersRef[i].destroyed \/ towersRef[i].ammo = 0)
  => UNCHANGED vars

C9_FireWithoutBatteryIsNoOp == [][C9_FireStep]_vars

\* PLAYING, with tower 0 out of ammo and towers 1 to 4 destroyed with ammo
\* left
C9_Witness ==
  /\ ticks >= 1
  /\ status = "PLAYING"
  /\ rendered.status = "PLAYING"
  /\ Len(towersRef) = 5
  /\ towersRef[1].ammo = 0 /\ ~towersRef[1].destroyed
  /\ \A i \in 2..5 : towersRef[i].destroyed /\ towersRef[i].ammo > 0

\* ---------------------------------------------------------------- C10
\* C10: a tick in which an Attacker reaches the height of its target
\* creates exactly one Blast (radius 0, growing) at the Attacker's position
\* and removes the Attacker in that tick; every Installation and Battery
\* that is not destroyed and has |dx| < 30 and |dy| < 20 to that position
\* loses exactly 1 health and is destroyed exactly when its health is then
\* <= 0; the others are unchanged.
RECURSIVE C10_LandedFrom(_)
\* the rockets that come down in the tick, by their index in the store: the
\* pass moves the rockets in store order and passes over the rocket that
\* follows one it removed
C10_LandedFrom(o) ==
  IF o > Len(rocketsRef) THEN {}
  ELSE IF Advance(rocketsRef[o]).current.y >= rocketsRef[o].target.y
       THEN {o} \cup C10_LandedFrom(o + 2)
       ELSE C10_LandedFrom(o + 1)

C10_Landed == C10_LandedFrom(1)

C10_Point(o) == Advance(rocketsRef[o]).current

\* the impacts of the tick that have g in their box
C10_Hits(g, points) ==
  Cardinality({o \in DOMAIN points :
                 /\ Abs(g.x - points[o].x) < 30
                 /\ Abs(g.y - points[o].y) < 20})

\* g before the tick and h after it
C10_Damaged(g, h, points) ==
  IF g.destroyed THEN h.destroyed /\ h.health = g.health
  ELSE LET n == C10_Hits(g, points)
       IN  /\ h.health = IF n >= g.health THEN 0 ELSE g.health - n
           /\ h.destroyed = (n >= g.health)

C10_BlastsAt(exps, from, point) ==
  {j \in from..Len(exps) : exps[j].x = point.x /\ exps[j].y = point.y}

C10_ImpactStep ==
  IsTick =>
    LET landed == C10_Landed
        points == [o \in landed |-> C10_Point(o)]
        created == Len(explosionsRef) + 1
        pushed == AfterRockets.explosions
        fresh == {j \in 1..Len(explosionsRef') :
                    explosionsRef'[j].id \notin IdsOf(explosionsRef)}
        arrived == {k \in 1..Len(missilesRef) :
                      missilesRef[k].id \notin IdsOf(missilesRef')}
    IN  /\ Len(pushed) = Len(explosionsRef) + Cardinality(landed)
        /\ \A j \in created..Len(pushed) :
             pushed[j].radius = 0 /\ pushed[j].growing
        /\ Cardinality(fresh) = Cardinality(landed) + Cardinality(arrived)
        /\ \A o \in landed :
             /\ rocketsRef[o].id \notin IdsOf(rocketsRef')
             /\ Cardinality(C10_BlastsAt(pushed, created, points[o]))
                  = Cardinality({q \in landed : points[q] = points[o]})
             /\ Cardinality({j \in fresh :
                               /\ explosionsRef'[j].x = points[o].x
                               /\ explosionsRef'[j].y = points[o].y
                               /\ explosionsRef'[j].growing})
                  = Cardinality({q \in landed : points[q] = points[o]})
                    + Cardinality({k \in arrived :
                                     missilesRef[k].target = points[o]})
        /\ \A i \in CityIx :
             /\ C10_Damaged(citiesRef[i], citiesRef'[i], points)
             /\ citiesRef'[i] = [citiesRef[i] EXCEPT
                                   !.health = citiesRef'[i].health,
                                   !.destroyed = citiesRef'[i].destroyed]
        /\ \A i \in TowerIx :
             /\ C10_Damaged(towersRef[i], towersRef'[i], points)
             /\ towersRef'[i].ammo = towersRef[i].ammo
             /\ towersRef'[i].id = towersRef[i].id

C10_GroundImpact == [][C10_ImpactStep]_vars

\* city 0 took the second of two impacts and is destroyed; city 1, 50 to
\* its right, is untouched; the two blasts are in the store, the rocket is
\* not
C10_Witness ==
  /\ ticks = 3
  /\ citiesRef[1].destroyed /\ citiesRef[1].health = 0
  /\ citiesRef[2].health = 2 /\ ~citiesRef[2].destroyed
  /\ Cardinality(C10_BlastsAt(explosionsRef, 1, citiesRef[1])) = 2
  /\ rocketsRef = << >>



\* ---------------------------------------------------------------- C11
\* C11: every Blast, whatever other Blasts are in the store, grows by one
\* step (3 halves) in every tick until its radius is >= 70 (140 halves) and
\* flips to shrinking in that tick, then shrinks by one step in every tick
\* and is removed in the tick its radius is <= 0: a lifetime of 94 ticks.
C11_Pulsed(e, after) ==
  IF e.growing
  THEN \E j \in 1..Len(after) :
         /\ after[j].id = e.id
         /\ after[j].radius = e.radius + 3
         /\ after[j].growing = (e.radius + 3 < 140)
  ELSE IF e.radius - 3 <= 0 THEN e.id \notin IdsOf(after)
       ELSE \E j \in 1..Len(after) :
              /\ after[j].id = e.id
              /\ after[j].radius = e.radius - 3
              /\ ~after[j].growing

C11_EveryBlastPulsesEveryTick ==
  [][IsTick => \A k \in 1..Len(explosionsRef) :
                 C11_Pulsed(explosionsRef[k], explosionsRef')]_vars


\* ---------------------------------------------------------------- C12
\* C12: a tick creates at most one Attacker, and none when no Aircraft is
\* active or no Installation or Battery stands; an Attacker that is created
\* starts at the position of an Aircraft active at that moment and is aimed,
\* up to 10 to either side, at an Installation or Battery not destroyed at
\* that moment.
C12_Standing(g) == ~g.destroyed

C12_AimedAt(r, g) ==
  C12_Standing(g) /\ r.target.y = g.y /\ Abs(r.target.x - g.x) <= 10

C12_SpawnStep ==
  IsTick =>
    LET created == {k \in 1..Len(rocketsRef') :
                      rocketsRef'[k].id \notin IdsOf(rocketsRef)}
        active == {j \in 1..Len(planesRef') : ~planesRef'[j].destroyed}
    IN  /\ Cardinality(created) <= 1
        /\ active = {} => created = {}
        /\ (/\ \A i \in 1..Len(citiesRef') : citiesRef'[i].destroyed
            /\ \A i \in 1..Len(towersRef') : towersRef'[i].destroyed)
           => created = {}
        /\ \A k \in created :
             /\ \E j \in active :
                  /\ rocketsRef'[k].start =
                       [x |-> planesRef'[j].x, y |-> planesRef'[j].y]
                  /\ rocketsRef'[k].current = rocketsRef'[k].start
             /\ \/ \E i \in 1..Len(citiesRef') :
                     C12_AimedAt(rocketsRef'[k], citiesRef'[i])
                \/ \E i \in 1..Len(towersRef') :
                     C12_AimedAt(rocketsRef'[k], towersRef'[i])

C12_SpawnedFromActiveAtStanding == [][C12_SpawnStep]_vars

\* a rocket has just left a plane for the last tower standing, aimed 10 to
\* the left of it
C12_Witness ==
  /\ ticks >= 1
  /\ \E i \in TowerIx : towersRef[i].destroyed
  /\ \E k \in 1..Len(rocketsRef) : \E j \in 1..Len(planesRef) :
       \E i \in TowerIx :
         /\ rocketsRef[k].start = rocketsRef[k].current
         /\ rocketsRef[k].start = [x |-> planesRef[j].x, y |-> planesRef[j].y]
         /\ ~planesRef[j].destroyed
         /\ C12_AimedAt(rocketsRef[k], towersRef[i])
         /\ rocketsRef[k].target.x = towersRef[i].x - 10


\* ---------------------------------------------------------------- C13
\* C13: distToSegment(p, a, a), both ends of the segment being a, is the
\* Euclidean distance from p to a: it is less than d exactly when the
\* squared distance is less than d * d, for every d.
C13_Degenerate(p, a) ==
  \A d \in 1..(2 * MaxOffset) :
    DistToSegmentLess(p, a, a, d) <=> (Sq(p.x - a.x) + Sq(p.y - a.y) < d * d)

C13_ProbeStep ==
  BeamProbe =>
    \A k \in 1..Len(rocketsRef) :
      (rocketsRef[k].id \notin IdsOf(rocketsRef'))
        <=> (Sq(rocketsRef[k].current.x - missilesRef[1].start.x)
               + Sq(rocketsRef[k].current.y - missilesRef[1].start.y) < 64)

C13_PointSegmentIsDistance ==
  /\ [](\A k \in 1..Len(rocketsRef) : \A j \in 1..Len(missilesRef) :
          /\ C13_Degenerate(rocketsRef[k].current, missilesRef[j].start)
          /\ C13_Degenerate(rocketsRef[k].current, missilesRef[j].target))
  /\ [][C13_ProbeStep]_vars

\* the rocket, less than 8 from the missile that has not moved, is gone
\* and has scored
C13_Witness ==
  /\ rocketsRef = << >>
  /\ scoreRef = 20
  /\ Len(missilesRef) = 1
  /\ missilesRef[1].current = missilesRef[1].start
  /\ ticks = 0


\* ---------------------------------------------------------------- C14
\* C14: when a tick has processed an Interceptor, no Attacker that was in
\* the store during the beam check is left in it less than 8 from the beam
\* start..current of that Interceptor, two such Attackers next to each
\* other in the store included; each one removed awards 20.
C14_Processed(m) ==
  \/ m.id \notin IdsOf(missilesRef')
  \/ \E j \in 1..Len(missilesRef') : missilesRef'[j] = Advance(m)

C14_BeamStep ==
  IsTick =>
    \A i \in 1..Len(missilesRef) :
      C14_Processed(missilesRef[i]) =>
        \A k \in 1..Len(rocketsRef') :
          rocketsRef'[k].id \in IdsOf(rocketsRef) =>
            ~DistToSegmentLess(rocketsRef'[k].current, missilesRef[i].start,
                               Advance(missilesRef[i]).current, 8)

C14_BeamClearsEveryAttacker == [][C14_BeamStep]_vars


\* ---------------------------------------------------------------- C15
\* C15: when a tick has processed a Blast, no Attacker that was in the store
\* during its check is left in it at a distance from the centre of the
\* Blast less than its radius (a radius is in halves of a unit), two such
\* Attackers next to each other in the store included; each one removed
\* awards 20.
C15_Processed(e) ==
  IF e.id \in IdsOf(explosionsRef)
  THEN \E i \in 1..Len(explosionsRef) :
         explosionsRef[i].id = e.id /\ explosionsRef[i].radius # e.radius
  ELSE e.radius > 0

C15_BlastStep ==
  IsTick =>
    \A j \in 1..Len(explosionsRef') :
      C15_Processed(explosionsRef'[j]) =>
        \A k \in 1..Len(rocketsRef') :
          rocketsRef'[k].id \in IdsOf(rocketsRef) =>
            ~(4 * (Sq(rocketsRef'[k].current.x - explosionsRef'[j].x)
                     + Sq(rocketsRef'[k].current.y - explosionsRef'[j].y))
                < Sq(explosionsRef'[j].radius))

C15_BlastClearsEveryAttacker == [][C15_BlastStep]_vars


\* ---------------------------------------------------------------- C16
\* C16: an Attacker awards score at most once: the score a tick adds is 20
\* for each Attacker that leaves the store in it other than by coming down
\* (and 10 for each Aircraft destroyed in it); an Attacker that comes down
\* awards nothing, and no other step but a lifecycle command changes the
\* score.
C16_ShotDown ==
  {k \in 1..Len(rocketsRef) :
     /\ rocketsRef[k].id \notin IdsOf(rocketsRef')
     /\ k \notin C10_Landed}

C16_PlanesDown ==
  {j \in 1..Len(planesRef) :
     /\ ~planesRef[j].destroyed
     /\ \E i \in 1..Len(planesRef') :
          planesRef'[i].id = planesRef[j].id /\ planesRef'[i].destroyed}

C16_ScoreStep ==
  /\ IsTick => scoreRef' = scoreRef + 20 * Cardinality(C16_ShotDown)
                                    + 10 * Cardinality(C16_PlanesDown)
  /\ (~IsTick /\ ~IsLifecycle) => scoreRef' = scoreRef

C16_ScoreOncePerAttacker == [][C16_ScoreStep]_vars

\* of two rockets one has come down on tower 0 and the other was shot down
\* in the same tick: 20 points
C16_Witness ==
  /\ ticks = 3
  /\ scoreRef = 20
  /\ rocketsRef = << >>
  /\ towersRef[1].health = 4
  /\ Len(missilesRef) = 1


\* ---------------------------------------------------------------- C17
\* C17: in a tick that runs in PLAYING every Attacker and every Interceptor
\* in its store when the tick starts advances by exactly one step of its
\* speed along its heading, whether or not another entity of the store is
\* removed in the same pass: one that is still in the store after the tick
\* is one step further.
C17_Advanced(e, after) ==
  \A j \in 1..Len(after) :
    after[j].id = e.id => after[j].current = Advance(e).current

C17_AdvanceStep ==
  (IsTick /\ status = "PLAYING") =>
    /\ \A k \in 1..Len(rocketsRef) : C17_Advanced(rocketsRef[k], rocketsRef')
    /\ \A k \in 1..Len(missilesRef) : C17_Advanced(missilesRef[k], missilesRef')

C17_EveryEntityAdvances == [][C17_AdvanceStep]_vars


\* ---------------------------------------------------------------- C18
\* C18: every Interceptor created by a fire command, whatever its aim point
\* (one on the firing Battery's own position or closer to it than one step
\* included), is eventually removed from the Interceptor store, leaving one
\* Blast at its aim point, as long as ticks go on in PLAYING.  An
\* Interceptor keeps its heading and is removed only within one step of its
\* aim point, so one that is to arrive is, while still in the store, never
\* further from where it was fired than its aim point is.
C18_OnItsWay(m) == Dist2(m.start, m.current) <= Dist2(m.start, m.target)

C18_EveryInterceptorArrives ==
  \A k \in 1..Len(missilesRef) : C18_OnItsWay(missilesRef[k])


\* ---------------------------------------------------------------- C19
\* C19: the population cap gates the spawn of Aircraft, so that in every
\* reachable state the number of active (not destroyed) Aircraft is at most
\* 5 + floor(level / 2).
C19_ActiveAircraftWithinCap ==
  Cardinality(ActivePlanes(planesRef)) <= 5 + level \div 2


\* ---------------------------------------------------------------- the long run
\* the ticks of a long run of one level
MaxQuietTicks == 405

\* gameLoop in a tick in which no draw of Math.random() passes its gate
QuietGameLoop ==
  /\ raf.pending
  /\ raf.status = "PLAYING"
  /\ ticks < MaxQuietTicks
  /\ Update(AfterExplosions, raf.level, NoDraws)
  /\ ticks' = ticks + 1
  /\ raf' = raf
  /\ UNCHANGED << level, rendered >>

\* a level from the lifecycle command that opens it, run without spawns
SpecLong == OpenedLevel(2) /\ [][QuietGameLoop]_vars


\* ---------------------------------------------------------------- C20
\* C20: the Formation Controller advances the formation index exactly once
\* every 400 ticks: from index 0 and timer 0 after a lifecycle command, the
\* index after n ticks is floor(n / 400) mod 3, and it is never outside
\* {0, 1, 2}.
C20_FormationIndexEvery400Ticks ==
  /\ currentFormationRef \in {0, 1, 2}
  /\ currentFormationRef = (ticks \div 400) % 3


\* ---------------------------------------------------------------- C21
\* C21: the health of an Aircraft never increases; it takes beam damage
\* (0.03 for each Interceptor within 12) and Blast damage (0.05 for each
\* Blast it is in) only while it is not destroyed; it becomes destroyed at
\* the first check that leaves its health at 0 or below and stays so; and
\* the bonus of 10 is added to the score once for each Aircraft, also when
\* several Interceptors and Blasts hit it in the same tick.
C21_Destroyed == {j \in 1..Len(planesRef) : planesRef[j].destroyed}

\* the damage a number of beams and blasts add up to
C21_Damages(beams, blasts) ==
  {BEAM_PLANE_DAMAGE * a + BLAST_PLANE_DAMAGE * b :
     a \in 0..beams, b \in 0..blasts}

C21_PlaneStep ==
  /\ \A j \in 1..Len(planesRef), i \in 1..Len(planesRef') :
       planesRef'[i].id = planesRef[j].id =>
         LET p == planesRef[j]
             q == planesRef'[i]
         IN  /\ q.health <= p.health
             /\ p.destroyed => q.destroyed /\ q.health = p.health
             /\ ~p.destroyed =>
                  /\ q.destroyed <=> q.health <= 0
                  /\ q.health > -BLAST_PLANE_DAMAGE
                  /\ p.health - q.health \in
                       C21_Damages(Len(missilesRef),
                                   Len(explosionsRef) + Len(missilesRef)
                                     + Len(rocketsRef))
  /\ IsTick => scoreRef' = scoreRef + SCORE_PER_ROCKET * Cardinality(C16_ShotDown)
                                    + 10 * Cardinality(C16_PlanesDown)

C22_MayLeave(p) ==
  LET q == MovePlane(p)
  IN  IF p.destroyed THEN q.y > GAME_HEIGHT
      ELSE IF p.direction = 1 THEN q.x > GAME_WIDTH + 100
      ELSE q.x < -100

C22_LeaveStep ==
  IsTick =>
    \A j \in 1..Len(planesRef) :
      planesRef[j].id \notin IdsOf(planesRef') => C22_MayLeave(planesRef[j])

C22_AircraftLeaveOnFarSide == [][C22_LeaveStep]_vars


\* ---------------------------------------------------------------- C23
\* C23: within one tick the passes run in the order ground impact of the
\* Attackers, beam checks, Blast checks, progression check, spawning.  An
\* Attacker that reaches the y of its target in a tick is removed in the
\* impact pass; a Blast created in the tick by an impact or by the arrival
\* of an Interceptor is already grown and checked in that tick; the status
\* is decided from the score and the Batteries the tick produced; and the
\* Attackers and Aircraft spawned in a tick are not moved in it.
C23_ImpactFirst ==
  status = "PLAYING" =>
    \A k \in C10_Landed : rocketsRef[k].id \notin IdsOf(rocketsRef')

C23_NewBlastGrown ==
  \A i \in 1..Len(explosionsRef') :
    explosionsRef'[i].id \notin UsedIds =>
      /\ explosionsRef'[i].radius = EXPLOSION_SPEED
      /\ explosionsRef'[i].growing

C23_StatusFromTick ==
  status' = Judge(status, raf.level, scoreRef', towersRef')

C23_SpawnsLast ==
  /\ \A i \in 1..Len(rocketsRef') :
       rocketsRef'[i].id \notin UsedIds =>
         rocketsRef'[i].current = rocketsRef'[i].start
  /\ \A i \in 1..Len(planesRef') :
       planesRef'[i].id \notin UsedIds =>
         \E d \in PlaneDraws(raf.level) :
           LET sp == SpawnedPlanes(d, raf.level, << 0, 0, 0 >>)
           IN  \E n \in 1..Len(sp) :
                 sp[n].x = planesRef'[i].x /\ sp[n].y = planesRef'[i].y

C23_PassStep ==
  IsTick =>
    /\ C23_ImpactFirst
    /\ C23_NewBlastGrown
    /\ C23_StatusFromTick
    /\ C23_SpawnsLast

C23_PassesInOrder == [][C23_PassStep]_vars


\* ---------------------------------------------------------------- C24
\* C24: once a Battery is destroyed, no tick and no fire command changes
\* its position, its target position, its health, its ammo or its destroyed
\* flag until the next lifecycle command: the Formation Controller moves
\* the Batteries that stand only, impacts damage those only, and a
\* destroyed Battery is never selected to fire.
C24_WreckStep ==
  ~IsLifecycle =>
    \A i \in TowerIx : towersRef[i].destroyed => towersRef'[i] = towersRef[i]

C24_WreckUntouched == [][C24_WreckStep]_vars

\* the formation has changed to the V and the last tower was destroyed on
\* its way: it lies where it was hit, and the wrecks with ammo left are
\* still in the row
C24_Witness ==
  /\ ticks = 3
  /\ currentFormationRef = 1
  /\ \A i \in TowerIx : towersRef[i].destroyed
  /\ towersRef[1].targetY = FormationY(1, 0)
  /\ towersRef[1].y # RowY(0) /\ towersRef[1].y # FormationY(1, 0)
  /\ \A i \in TowerIx \ {1} :
       /\ towersRef[i].y = RowY(i - 1)
       /\ towersRef[i].targetY = RowY(i - 1)
       /\ towersRef[i].ammo > 0


\* ---------------------------------------------------------------- C25
\* C25: in every reachable state 1 <= level <= 10.  The level changes only
\* through startGame (to 1) and nextLevel (by +1); nextLevel is offered in
\* LEVEL_UP only, and LEVEL_UP is entered only from a tick with level < 10,
\* so the status WON is reached at level 10 only.
C25_LevelInRange ==
  /\ level \in 1..10
  /\ status = "LEVEL_UP" => level < 10
  /\ status = "WON" => level = 10

C25_LevelStep ==
  /\ level' # level =>
       \/ StartGame /\ level' = 1
       \/ NextLevel /\ level' = level + 1 /\ rendered.status = "LEVEL_UP"
  /\ (status' = "LEVEL_UP" /\ status # "LEVEL_UP") => IsTick /\ level < 10
  /\ (status' = "WON" /\ status # "WON") => IsTick /\ level = 10

C25_LevelOneToTen == [] C25_LevelInRange /\ [][C25_LevelStep]_vars

\* the last level has been won by a tick, and the overlay is up
C25_Witness ==
  /\ status = "WON"
  /\ rendered = [status |-> "WON", level |-> 10]
  /\ scoreRef >= 10 * LEVEL_TARGET_STEP
  /\ ticks >= 1


\* ---------------------------------------------------------------- C26
\* C26: a fire command received while the status is START, WON, LOST or
\* LEVEL_UP changes nothing: no Battery loses ammo and no Interceptor is
\* created.
C26_FireStep ==
  (status \in {"START", "WON", "LOST", "LEVEL_UP"} /\ IsFire) =>
    /\ missilesRef' = missilesRef
    /\ \A i \in TowerIx : towersRef'[i].ammo = towersRef[i].ammo

C26_FireOnlyWhilePlaying == [][C26_FireStep]_vars


\* ---------------------------------------------------------------- C27
\* C27: at the end of every tick no Attacker that is still in the store has
\* current.y >= target.y: one that has reached or passed the y of its
\* target does not live on to a later tick, also when the removal of
\* another Attacker made the pass skip it.
C27_NoAttackerAtTargetHeight ==
  \A k \in 1..Len(rocketsRef) :
    rocketsRef[k].current.y < rocketsRef[k].target.y

\* the first of two rockets has come down; the pass skipped the second,
\* which is still one step above its target, next to the new blast
C27_Witness ==
  /\ ticks = 1
  /\ Len(rocketsRef) = 1
  /\ rocketsRef[1].id = 2
  /\ rocketsRef[1].current.y = rocketsRef[1].target.y - rocketsRef[1].speed
  /\ \E i \in 1..Len(explosionsRef) :
       /\ explosionsRef[i].y = rocketsRef[1].target.y
       /\ explosionsRef[i].x = TOWER_POSITIONS[1].x

====
